---- MODULE Spec2Model ----
(***************************************************************************)
(* Model of PaliGemma/inference.py: the autoregressive decode loop of      *)
(* test_inference (forward call, token selection, stop rule, cache and     *)
(* attention-mask threading) and the nucleus sampler _sample_top_p.        *)
(*                                                                         *)
(* Tensors of shape (1, n) are modelled without the batch dimension.       *)
(* A vector over the vocabulary is a function Vocab -> value, indexed from *)
(* 0 like the tensors of the code.  Floating-point values are modelled as  *)
(* exact fractions; rounding is not modelled.                              *)
(***************************************************************************)
EXTENDS Integers, Sequences, FiniteSets, TLC

\* ---------------------------------------------------------------- bounds
VocabSize == 3     \* size of the vocabulary (last dimension of the logits)
MaxTokens == 3     \* largest max_tokens_to_generate explored
MaxPrompt == 2     \* largest number of prompt positions explored
MaxWeight == 3     \* sampler harness: largest unnormalised probability weight
PDen      == 4     \* top_p ranges over 1/PDen .. PDen/PDen
RngPeriod == 6     \* number of states of the default random generator

Vocab == 0 .. (VocabSize - 1)
Calls == {1, 2}                 \* identities of test_inference invocations
LogitValues == {0, 1}           \* values a logit may take
StopTokens  == {1}              \* values of processor.tokenizer.eos_token_id
ExpInvTemps == {2, 3}           \* e^(1/temperature): temperature = 1/ln 2, 1/ln 3

\* A vector over the vocabulary, tabulated: comparing a function makes TLC
\* compute its table once, instead of recomputing an entry at every use.
Vec(f) == IF f = f THEN f ELSE f

\* ------------------------------------------------------- float tensors
\* A float tensor over the vocabulary is a record [v, d]: entry i has the
\* exact value v[i] / d, with d > 0 common to the entries; d = 0 stands for a
\* tensor of NaN (the result of 0/0).  top_p is a fraction [n, d].
Frac(num, den) == [n |-> num, d |-> den]

One == Frac(1, 1)

IsNaN(t) == t.d = 0

\* sum of v[0..r]
RECURSIVE PrefixSum(_, _)
PrefixSum(v, r) == IF r = 0 THEN v[0] ELSE PrefixSum(v, r - 1) + v[r]

\* tensor.sum(dim=-1), as a multiple of 1/d
SumVec(v) == PrefixSum(v, VocabSize - 1)

\* ------------------------------------------------------- token selection
\* (variant: the last of several maximal values)
RECURSIVE ArgMaxLastFrom(_, _, _)
ArgMaxLastFrom(v, i, best) ==
    IF i = VocabSize THEN best
    ELSE ArgMaxLastFrom(v, i + 1, IF v[i] >= v[best] THEN i ELSE best)

RECURSIVE ArgMaxFrom(_, _, _)
ArgMaxFrom(v, i, best) ==
    IF i = VocabSize THEN best
    ELSE ArgMaxFrom(v, i + 1, IF v[i] > v[best] THEN i ELSE best)

ArgMaxLast(v) == ArgMaxLastFrom(v, 1, 0)

\* torch.argmax(x, dim=-1): the index of the maximum; scanning from index 0
\* and replacing the best only on a strictly greater value returns the first
\* of several maximal values, as torch documents.
ArgMax(v) == ArgMaxFrom(v, 1, 0)

\* torch.softmax(logits / temperature, dim=-1).  With b = e^(1/temperature)
\* the entry of index i is b^logits[i] / Sum_j b^logits[j]; the temperature is
\* carried as b so that the value is an exact fraction.
Softmax(logits, b) ==
    LET w == Vec([i \in Vocab |-> b ^ logits[i]])
    IN  [v |-> w, d |-> SumVec(w)]

Perms == {f \in [Vocab -> Vocab] : \A i, j \in Vocab : f[i] = f[j] => i = j}

\* torch.sort(probs, dim=-1, descending=True) returns (values, indices).  The
\* sort is not stable (stable=False is the default), so the order of equal
\* entries is not determined: every descending permutation is an outcome.
SortIndices(probs) ==
    {idx \in Perms : \A r \in 0 .. (VocabSize - 2) : probs.v[idx[r]] >= probs.v[idx[r + 1]]}

SortValues(probs, idx) == [v |-> Vec([r \in Vocab |-> probs.v[idx[r]]]), d |-> probs.d]

\* torch.cumsum(probs_sort, dim=-1)
CumSum(probs_sort) ==
    [v |-> Vec([r \in Vocab |-> PrefixSum(probs_sort.v, r)]), d |-> probs_sort.d]

\* (variant: the cumulative sum compared with its own entry included)
TopPMaskInclusive(probs_sort, probs_sum, p) ==
    Vec([r \in Vocab |-> probs_sum.v[r] * p.d > p.n * probs_sort.d])

\* (variant: an entry masked already when the sum before it equals p)
TopPMaskAtThreshold(probs_sort, probs_sum, p) ==
    Vec([r \in Vocab |-> (probs_sum.v[r] - probs_sort.v[r]) * p.d >= p.n * probs_sort.d])

\* mask = probs_sum - probs_sort > p
TopPMask(probs_sort, probs_sum, p) ==
    Vec([r \in Vocab |-> (probs_sum.v[r] - probs_sort.v[r]) * p.d > p.n * probs_sort.d])

\* probs_sort[mask] = 0.0
MaskedFill(probs_sort, mask) ==
    [v |-> Vec([r \in Vocab |-> IF mask[r] THEN 0 ELSE probs_sort.v[r]]),
     d |-> probs_sort.d]

\* probs_sort.div_(probs_sort.sum(dim=-1, keepdim=True)): entry v/d divided by
\* the sum s/d is (v * d) / (d * s); a zero sum (of non-negative entries, all
\* zero then) gives 0/0, NaN, in every entry.
DivSum(probs_sort) ==
    LET s == SumVec(probs_sort.v)
    IN  [v |-> Vec([r \in Vocab |-> probs_sort.v[r] * probs_sort.d]),
         d |-> probs_sort.d * s]

NoToken == -1    \* stands for "the call raised": no token was produced

\* The state of the default generator after one draw.
Advance(g) == (g + 1) % RngPeriod

\* torch.multinomial(probs_sort, num_samples=1): a weighted draw, by inversion
\* of the cumulative distribution at the variate g / RngPeriod the default
\* generator yields in state g: the first rank whose cumulative weight exceeds
\* it.  An invalid weight vector (NaN) raises.
Multinomial(weights, g) ==
    IF IsNaN(weights) THEN NoToken
    ELSE LET hit == {r \in Vocab : PrefixSum(weights.v, r) * RngPeriod > g * weights.d}
         IN  IF hit = {} THEN NoToken
             ELSE CHOOSE r \in hit : \A q \in hit : r <= q

\* (variant: the sampled rank returned without mapping it back)
GatherRank(probs_idx, rank) == rank

\* torch.gather(probs_idx, -1, next_token)
Gather(probs_idx, rank) ==
    IF rank = NoToken THEN NoToken ELSE probs_idx[rank]

\* The truncated distribution of _sample_top_p (lines 94-96).
Truncate(probs_sort, p) ==
    MaskedFill(probs_sort, TopPMask(probs_sort, CumSum(probs_sort), p))

\* _sample_top_p(probs, p), for the sort outcome idx and generator state g.
SampleTopP(probs, p, idx, g) ==
    Gather(idx, Multinomial(DivSum(Truncate(SortValues(probs, idx), p)), g))

\* ------------------------------------------------------------------ state
VARIABLES
    pc,                 \* per call: position in test_inference
    args,               \* per call: max_tokens_to_generate, temperature, top_p, do_sample
    model_inputs,       \* per call: what get_model_inputs returns
    stop_token,         \* per call: processor.tokenizer.eos_token_id
    input_ids,          \* per call: the token window passed to the next forward call
    attention_mask,     \* per call: the attention mask
    pixel_values,       \* per call: the image features
    kv_cache,           \* per call: number of positions the cache covers
    generated_tokens,   \* per call: the list of generated tokens
    next_token_logits,  \* per call: logits of the last position, from forward call to selection
    step,               \* per call: number of loop iterations entered (forward calls made)
    fwd,                \* per call: the arguments and the returned cache of the latest forward call
    stream,             \* per greedy call: the highest-scoring token of each answer of the model
    failed,             \* per call: a step of the call has raised
    alone,              \* per call: the generator as it would be, had the call run alone since its start
    rng,                \* state of torch's default random generator (process-wide)
    unit                \* a direct call of a token-selection function, and its results

vars == <<pc, args, model_inputs, stop_token, input_ids, attention_mask, pixel_values,
          kv_cache, generated_tokens, next_token_logits, step, fwd, stream, failed,
          alone, rng, unit>>

loopVars == <<pc, args, model_inputs, stop_token, input_ids, attention_mask, pixel_values,
              kv_cache, generated_tokens, next_token_logits, step, fwd, stream, failed,
              alone>>

TopPs == {Frac(k, PDen) : k \in 1 .. PDen}

None == "None"

\* The prompt window the processor builds: n positions (image tokens, bos,
\* text), with an attention mask of n ones, and the pixel values of the image.
ModelInputs ==
    {[input_ids      |-> [i \in 1 .. n |-> (i + 1) % VocabSize],
      attention_mask |-> [i \in 1 .. n |-> 1],
      pixel_values   |-> "pixels"] : n \in 1 .. MaxPrompt}

Args ==
    [max_tokens_to_generate : 0 .. MaxTokens,
     temperature            : ExpInvTemps,
     top_p                  : TopPs,
     do_sample              : BOOLEAN]

\* The arguments explored in the decode loop: the smallest and the largest
\* top_p for sampling calls; one temperature and one top_p for greedy calls,
\* which read neither.
ArgsExplored ==
    {a \in Args : /\ a.top_p \in {Frac(1, PDen), Frac(PDen, PDen)}
                  /\ ~a.do_sample => (a.temperature = 2 /\ a.top_p = Frac(PDen, PDen))}

NoCache == -1    \* stands for "no cache": no forward call has returned one

NoFwd == [input_ids |-> <<>>, pixel_values |-> None, attention_mask |-> <<>>,
          kv_cache |-> 0, returned |-> NoCache, previous |-> NoCache]

NoUnit == [pc |-> "off", x |-> [i \in Vocab |-> 0], p |-> One, fn |-> None,
           probs_idx |-> [i \in Vocab |-> i], mask |-> [i \in Vocab |-> FALSE],
           mass |-> 0, probs_sort |-> [v |-> [i \in Vocab |-> 0], d |-> 1],
           rank |-> NoToken, ret |-> NoToken]

\* The locals of a call that has not started.
Blank(started) ==
    /\ pc = [c \in Calls |-> IF c \in started THEN "idle" ELSE "absent"]
    /\ input_ids = [c \in Calls |-> <<>>]
    /\ attention_mask = [c \in Calls |-> <<>>]
    /\ pixel_values = [c \in Calls |-> None]
    /\ kv_cache = [c \in Calls |-> 0]
    /\ generated_tokens = [c \in Calls |-> <<>>]
    /\ next_token_logits = [c \in Calls |-> None]
    /\ step = [c \in Calls |-> 0]
    /\ fwd = [c \in Calls |-> NoFwd]
    /\ stream = [c \in Calls |-> <<>>]
    /\ failed = [c \in Calls |-> FALSE]

DefaultArgs == [max_tokens_to_generate |-> 0, temperature |-> 2, top_p |-> Frac(PDen, PDen),
                do_sample |-> FALSE]

DefaultInputs == CHOOSE m \in ModelInputs : Len(m.input_ids) = 1

\* One call of test_inference, about to start.
Init ==
    /\ Blank({1})
    /\ args \in {f \in [Calls -> ArgsExplored] : f[2] = DefaultArgs}
    /\ model_inputs \in {f \in [Calls -> ModelInputs] : f[2] = DefaultInputs}
    /\ stop_token \in [Calls -> StopTokens]
    /\ rng \in 0 .. (RngPeriod - 1)
    /\ alone = [c \in Calls |-> [rng |-> rng, same |-> TRUE]]
    /\ unit = NoUnit


\* ------------------------------------------------------ the decode loop
\* KVCache(): a fresh cache covers no position.
EmptyCache == 0

\* The cache a forward call returns: the model folds every position of the
\* input window it is passed into the cache it is passed.
ModelCache(cache, ids) == cache + Len(ids)

\* (variant: the returned cache dropped)
KeepCache(old, returned) == old

\* kv_cache = outputs["kv_cache"]
ThreadCache(old, returned) == returned

\* for _ in range(max_tokens_to_generate): the position after `entered`
\* iterations: the loop body, or the statement after the loop.
LoopTest(entered, max) == IF entered < max THEN "forward" ELSE "cat"

\* (variant: no stop on the eos token)
NeverStop(token, stop) == FALSE

\* if next_token.item() == stop_token: break
IsStop(token, stop) == token = stop

\* (variant: the token appended to the window instead of replacing it)
AppendInput(ids, token) == Append(ids, token)

\* input_ids = next_token.unsqueeze(-1)
NextInput(ids, token) == <<token>>

\* (variant: the mask not extended)
KeepMask(mask) == mask

\* attention_mask = torch.cat([attention_mask, torch.ones((1, 1))], dim=-1)
ExtendMask(mask) == Append(mask, 1)

\* Lines 65-69: the token selected from the logits, for the sort outcome idx
\* and the generator state g.
SelectToken(a, logits, idx, g) ==
    IF a.do_sample
    THEN SampleTopP(Softmax(logits, a.temperature), a.top_p, idx, g)
    ELSE ArgMax(logits)

\* The outcomes of the sort inside _sample_top_p for these logits; a greedy
\* call sorts nothing.
SortOutcomes(a, logits) ==
    IF a.do_sample THEN SortIndices(Softmax(logits, a.temperature))
    ELSE {[r \in Vocab |-> r]}

\* Lines 43-51: the inputs are prepared, the cache and the list are created.
Start(c) ==
    /\ pc[c] = "idle"
    /\ input_ids' = [input_ids EXCEPT ![c] = model_inputs[c].input_ids]
    /\ attention_mask' = [attention_mask EXCEPT ![c] = model_inputs[c].attention_mask]
    /\ pixel_values' = [pixel_values EXCEPT ![c] = model_inputs[c].pixel_values]
    /\ kv_cache' = [kv_cache EXCEPT ![c] = EmptyCache]
    /\ generated_tokens' = [generated_tokens EXCEPT ![c] = <<>>]
    /\ pc' = [pc EXCEPT ![c] = LoopTest(0, args[c].max_tokens_to_generate)]
    /\ alone' = [alone EXCEPT ![c] = [rng |-> rng, same |-> TRUE]]
    /\ UNCHANGED <<args, model_inputs, stop_token, next_token_logits, step, fwd,
                   stream, failed, rng, unit>>

\* Lines 53-62: the forward call of one iteration; the model answers with any
\* logits and with the cache extended by the window.
Forward(c) ==
    /\ pc[c] = "forward"
    /\ \E logits \in [Vocab -> LogitValues] :
           /\ next_token_logits' = [next_token_logits EXCEPT ![c] = logits]
           /\ stream' = [stream EXCEPT ![c] =
                             IF args[c].do_sample THEN @ ELSE Append(@, ArgMax(logits))]
    /\ fwd' = [fwd EXCEPT ![c] = [input_ids      |-> input_ids[c],
                                  pixel_values   |-> pixel_values[c],
                                  attention_mask |-> attention_mask[c],
                                  kv_cache       |-> kv_cache[c],
                                  returned       |-> ModelCache(kv_cache[c], input_ids[c]),
                                  previous       |-> @.returned]]
    /\ kv_cache' = [kv_cache EXCEPT
                        ![c] = ThreadCache(@, ModelCache(@, input_ids[c]))]
    /\ step' = [step EXCEPT ![c] = @ + 1]
    /\ pc' = [pc EXCEPT ![c] = "sample"]
    /\ UNCHANGED <<args, model_inputs, stop_token, input_ids, attention_mask,
                   pixel_values, generated_tokens, failed, alone, rng, unit>>

\* Lines 64-83: token selection, append, stop test, next window and mask.
\* A sampling call reads and advances the default generator; `alone` follows
\* the generator this call would have seen with no other call drawing from it.
Sample(c) ==
    /\ pc[c] = "sample"
    /\ \E idx \in SortOutcomes(args[c], next_token_logits[c]) :
       \E next_token \in {SelectToken(args[c], next_token_logits[c], idx, rng)} :
       \E unshared \in {IF alone[c].rng = rng THEN next_token
                         ELSE SelectToken(args[c], next_token_logits[c], idx, alone[c].rng)} :
         /\ generated_tokens' = [generated_tokens EXCEPT ![c] = Append(@, next_token)]
         /\ alone' = [alone EXCEPT ![c] =
                         [rng  |-> IF args[c].do_sample THEN Advance(@.rng) ELSE @.rng,
                          same |-> @.same /\ next_token = unshared]]
         /\ IF next_token = NoToken
            THEN /\ pc' = [pc EXCEPT ![c] = "error"]
                 /\ UNCHANGED <<input_ids, attention_mask>>
            ELSE IF IsStop(next_token, stop_token[c])
            THEN /\ pc' = [pc EXCEPT ![c] = "cat"]
                 /\ UNCHANGED <<input_ids, attention_mask>>
            ELSE /\ input_ids' = [input_ids EXCEPT ![c] = NextInput(@, next_token)]
                 /\ attention_mask' = [attention_mask EXCEPT ![c] = ExtendMask(@)]
                 /\ pc' = [pc EXCEPT ![c] =
                              LoopTest(step[c], args[c].max_tokens_to_generate)]
    /\ rng' = IF args[c].do_sample THEN Advance(rng) ELSE rng
    /\ next_token_logits' = [next_token_logits EXCEPT ![c] = None]
    /\ UNCHANGED <<args, model_inputs, stop_token, pixel_values, kv_cache,
                   step, fwd, stream, failed, unit>>

\* Lines 85-87: torch.cat of the generated tokens, decode and print.
\* torch.cat raises on an empty list of tensors.
Finish(c) ==
    /\ pc[c] = "cat"
    /\ pc' = [pc EXCEPT ![c] = IF generated_tokens[c] = <<>> THEN "error" ELSE "done"]
    /\ UNCHANGED <<args, model_inputs, stop_token, input_ids, attention_mask,
                   pixel_values, kv_cache, generated_tokens, next_token_logits, step,
                   fwd, stream, failed, alone, rng, unit>>

Next == \E c \in Calls : Start(c) \/ Forward(c) \/ Sample(c) \/ Finish(c)

Spec == Init /\ [][Next]_vars

\* ------------------------------------------------------- steps that raise
\* (variant: a failing step caught and run again)
Retry(at) == at

\* Lines 53-87 hold no try/except: an exception raised inside the loop leaves
\* test_inference at once.
Propagate(at) == "error"

\* Lines 55-60: the forward call of one iteration raises; it was called with
\* the current arguments and returns nothing.
ForwardRaises(c) ==
    /\ pc[c] = "forward"
    /\ fwd' = [fwd EXCEPT ![c] = [input_ids      |-> input_ids[c],
                                  pixel_values   |-> pixel_values[c],
                                  attention_mask |-> attention_mask[c],
                                  kv_cache       |-> kv_cache[c],
                                  returned       |-> NoCache,
                                  previous       |-> @.returned]]
    /\ step' = [step EXCEPT ![c] = @ + 1]
    /\ failed' = [failed EXCEPT ![c] = TRUE]
    /\ pc' = [pc EXCEPT ![c] = Propagate("forward")]
    /\ UNCHANGED <<args, model_inputs, stop_token, input_ids, attention_mask,
                   pixel_values, kv_cache, generated_tokens, next_token_logits,
                   stream, alone, rng, unit>>

\* Lines 65-71: the token selection raises, or the assertion on the shape of
\* next_token fails; nothing has been appended.
SelectRaises(c) ==
    /\ pc[c] = "sample"
    /\ failed' = [failed EXCEPT ![c] = TRUE]
    /\ pc' = [pc EXCEPT ![c] = Propagate("sample")]
    /\ UNCHANGED <<args, model_inputs, stop_token, input_ids, attention_mask,
                   pixel_values, kv_cache, generated_tokens, next_token_logits,
                   step, fwd, stream, alone, rng, unit>>

FailNext ==
    \E c \in Calls : \/ Start(c) \/ Forward(c) \/ Sample(c) \/ Finish(c)
                     \/ ForwardRaises(c) \/ SelectRaises(c)

FailSpec == Init /\ [][FailNext]_vars

TypeOK ==
    /\ pc \in [Calls -> {"absent", "idle", "forward", "sample", "cat", "done", "error"}]
    /\ \A c \in Calls : step[c] \in 0 .. MaxTokens
    /\ \A c \in Calls : Len(generated_tokens[c]) <= MaxTokens
    /\ \A c \in Calls : \A i \in 1 .. Len(generated_tokens[c]) : generated_tokens[c][i] \in Vocab
    /\ rng \in 0 .. (RngPeriod - 1)


\* Two independent calls of test_inference in one process, each with its own
\* inputs, cache and model answers; their steps interleave in any order.
ConcInit ==
    /\ Blank(Calls)
    /\ args \in [Calls -> {a \in ArgsExplored :
                              /\ a.max_tokens_to_generate \in 1 .. 2
                              /\ a.temperature = 2
                              /\ a.top_p = Frac(PDen, PDen)}]
    /\ model_inputs \in [Calls -> {DefaultInputs}]
    /\ stop_token \in [Calls -> StopTokens]
    /\ rng \in 0 .. (RngPeriod - 1)
    /\ alone = [c \in Calls |-> [rng |-> rng, same |-> TRUE]]
    /\ unit = NoUnit

ConcSpec == ConcInit /\ [][Next]_vars

\* --------------------------------- direct calls of the selection functions
\* A score vector x; as a probability distribution it is x / sum(x).
Distribution(x) == [v |-> x, d |-> SumVec(x)]

UnitInit ==
    /\ Blank({})
    /\ args = [c \in Calls |-> DefaultArgs]
    /\ model_inputs = [c \in Calls |-> DefaultInputs]
    /\ stop_token \in [Calls -> StopTokens]
    /\ rng \in 0 .. (RngPeriod - 1)
    /\ alone = [c \in Calls |-> [rng |-> rng, same |-> TRUE]]
    /\ \E x \in [Vocab -> 0 .. MaxWeight], p \in TopPs :
           unit = [NoUnit EXCEPT !.pc = "ready", !.x = x, !.p = p]

\* torch.argmax(x, dim=-1, keepdim=True) on the score vector (line 69).
CallArgMax ==
    /\ unit.pc = "ready"
    /\ unit' = [unit EXCEPT !.pc = "returned", !.fn = "argmax",
                            !.ret = ArgMax(unit.x)]
    /\ UNCHANGED <<loopVars, rng>>

\* _sample_top_p(probs, p) on the distribution x / sum(x) (lines 90-100); the
\* intermediate tensors are kept in `unit`.
CallSampleTopP ==
    /\ unit.pc = "ready"
    /\ \E i \in Vocab : unit.x[i] > 0
    /\ \E probs \in {Distribution(unit.x)} :
       \E idx \in SortIndices(probs) :
       \E probs_sort \in {SortValues(probs, idx)} :
       \E mask \in {TopPMask(probs_sort, CumSum(probs_sort), unit.p)} :
       \E filled \in {MaskedFill(probs_sort, mask)} :
           unit' = [unit EXCEPT !.pc = "returned", !.fn = "_sample_top_p",
                                !.probs_idx = idx,
                                !.mask = mask,
                                !.mass = SumVec(filled.v),
                                !.probs_sort = DivSum(filled),
                                !.rank = Multinomial(DivSum(filled), rng),
                                !.ret = SampleTopP(probs, unit.p, idx, rng)]
    /\ rng' = Advance(rng)
    /\ UNCHANGED loopVars

UnitNext == CallArgMax \/ CallSampleTopP

UnitSpec == UnitInit /\ [][UnitNext]_vars


\* ---------------------------------------------------------------- claims
PromptLength(c) == Len(model_inputs[c].input_ids)

MaxSteps(c) == args[c].max_tokens_to_generate

Stopped(c) == pc[c] \in {"cat", "done", "error"}

\* A step is complete when the call is between iterations or past the loop.
BetweenSteps(c) == pc[c] \in {"forward", "cat", "done", "error"}

HasEos(c) ==
    \E i \in 1 .. Len(generated_tokens[c]) : generated_tokens[c][i] = stop_token[c]

\* C1: at a completed step k < max_tokens_to_generate the loop has stopped if
\* and only if the token sampled at step k is the eos token; no earlier token
\* is the eos token, and the generated sequence has exactly k tokens (so that,
\* when the loop stopped there, its last token is the eos token).
C1_StopsExactlyOnEos ==
    \A c \in Calls :
        (BetweenSteps(c) /\ step[c] >= 1 /\ step[c] < MaxSteps(c)) =>
            LET k == step[c]
                g == generated_tokens[c]
            IN  /\ Len(g) = k
                /\ Stopped(c) <=> (g[k] = stop_token[c])
                /\ \A j \in 1 .. (k - 1) : g[j] # stop_token[c]
                /\ pc[c] # "error"

C1_Witness ==
    \E c \in Calls :
        /\ pc[c] = "cat" /\ step[c] = 2 /\ MaxSteps(c) = 3
        /\ generated_tokens[c][2] = stop_token[c]
        /\ Len(generated_tokens[c]) = 2

\* C2: whatever the model answers, a call that has ended has reached "done"
\* (not an error) and has performed at most max_tokens_to_generate steps.
C2_EndsDoneWithinBudget ==
    \A c \in Calls :
        pc[c] \in {"done", "error"} => (pc[c] = "done" /\ step[c] <= MaxSteps(c))

\* C3 as stated: after every completed step k, the stopping step included, the
\* attention mask has length promptLength + k.
C3_MaskLengthEveryStep ==
    \A c \in Calls :
        (BetweenSteps(c) /\ step[c] >= 1) =>
            Len(attention_mask[c]) = PromptLength(c) + step[c]

\* C3 as amended: after every completed step k the attention mask has length
\* promptLength + k if the token of step k is not the eos token, and
\* promptLength + k - 1 if it is (the step that stops on eos leaves the mask
\* as it was); during step k, before the token is selected, promptLength + k - 1.
C3_MaskLength ==
    \A c \in Calls :
        /\ (BetweenSteps(c) /\ step[c] >= 1) =>
              Len(attention_mask[c]) =
                  IF generated_tokens[c][step[c]] = stop_token[c]
                  THEN PromptLength(c) + step[c] - 1
                  ELSE PromptLength(c) + step[c]
        /\ pc[c] = "sample" => Len(attention_mask[c]) = PromptLength(c) + step[c] - 1
        /\ \A i \in 1 .. Len(attention_mask[c]) : attention_mask[c][i] = 1

C3_Witness ==
    \E c \in Calls :
        /\ pc[c] = "cat" /\ step[c] = 2
        /\ generated_tokens[c][2] = stop_token[c]
        /\ Len(attention_mask[c]) = PromptLength(c) + 1

C3_WitnessExhausted ==
    \E c \in Calls :
        /\ pc[c] = "cat" /\ step[c] = MaxTokens /\ ~HasEos(c)
        /\ Len(attention_mask[c]) = PromptLength(c) + MaxTokens

\* C4 as stated: on every decode step, the first included, the context length
\* covered by the cache increases by exactly 1.
C4_CachePlusOneEveryStep ==
    \A c \in Calls :
        pc[c] = "sample" => kv_cache[c] = fwd[c].kv_cache + 1

\* C4 as amended: the first decode step takes the covered context length from
\* 0 to promptLength (the whole prompt window is folded in); every later step
\* increases it by exactly 1, so that it is promptLength + k - 1 after step k.
C4_CacheGrowth ==
    \A c \in Calls :
        /\ pc[c] = "sample" =>
              /\ step[c] = 1 => (fwd[c].kv_cache = 0 /\ kv_cache[c] = PromptLength(c))
              /\ step[c] > 1 => kv_cache[c] = fwd[c].kv_cache + 1
        /\ step[c] >= 1 => kv_cache[c] = PromptLength(c) + step[c] - 1
        /\ step[c] = 0 => kv_cache[c] = 0

C4_Witness ==
    \E c \in Calls :
        /\ pc[c] = "sample" /\ step[c] = 3 /\ PromptLength(c) = 2
        /\ fwd[c].kv_cache = 3 /\ kv_cache[c] = 4

\* C5: on every forward call the cache passed in is empty if and only if it is
\* the call's first forward call; the first forward call is passed the full
\* prompt and the image features; every later one is passed exactly one token,
\* the one selected at the step before.
C5_ForwardArguments ==
    \A c \in Calls :
        pc[c] = "sample" =>
            /\ (fwd[c].kv_cache = EmptyCache) <=> (step[c] = 1)
            /\ step[c] = 1 =>
                  /\ fwd[c].input_ids = model_inputs[c].input_ids
                  /\ fwd[c].pixel_values = model_inputs[c].pixel_values
                  /\ fwd[c].pixel_values # None
            /\ step[c] > 1 =>
                  /\ Len(generated_tokens[c]) = step[c] - 1
                  /\ fwd[c].input_ids = <<generated_tokens[c][step[c] - 1]>>

C5_Witness ==
    \E c \in Calls :
        /\ pc[c] = "sample" /\ step[c] = 2 /\ PromptLength(c) = 2
        /\ fwd[c].kv_cache = 2 /\ Len(fwd[c].input_ids) = 1

\* C6: the greedy choice is the index of the maximum score, the lowest such
\* index when several share the maximum.
C6_GreedyFirstMaximum ==
    unit.fn = "argmax" =>
        /\ unit.ret \in Vocab
        /\ \A j \in Vocab : unit.x[j] <= unit.x[unit.ret]
        /\ \A j \in Vocab : j < unit.ret => unit.x[j] < unit.x[unit.ret]

\* scores in the proportions of the example: a low score, then the maximum twice
C6_Witness ==
    /\ unit.fn = "argmax"
    /\ unit.x[0] = 1 /\ unit.x[1] = 3 /\ unit.x[2] = 3
    /\ unit.ret = 1

\* C7: the truncation of the nucleus sampler never zeroes the first sorted
\* entry; the surviving mass is positive, the renormalisation divides by a
\* non-zero sum, and the renormalised distribution sums to 1.
C7_TruncationKeepsTop ==
    unit.fn = "_sample_top_p" =>
        /\ ~unit.mask[0]
        /\ unit.mass > 0
        /\ ~IsNaN(unit.probs_sort)
        /\ unit.probs_sort.v[0] > 0
        /\ SumVec(unit.probs_sort.v) = unit.probs_sort.d
        /\ unit.ret \in Vocab

C7_Witness ==
    /\ unit.fn = "_sample_top_p"
    /\ unit.p = Frac(1, PDen)
    /\ unit.x[unit.probs_idx[0]] * PDen > SumVec(unit.x)
    /\ \A r \in Vocab : r > 0 => unit.mask[r]
    /\ unit.probs_sort.v[0] = unit.probs_sort.d
    /\ unit.x[unit.probs_idx[1]] > 0

\* top_p is smaller than the highest probability of the distribution x / sum(x)
SmallTopP == unit.x[ArgMax(unit.x)] * unit.p.d > unit.p.n * SumVec(unit.x)

UniqueMax ==
    \A j \in Vocab : j # ArgMax(unit.x) => unit.x[j] < unit.x[ArgMax(unit.x)]

\* C8 as stated: with top_p smaller than the highest probability the nucleus
\* sampler returns the token the greedy strategy returns, also when several
\* tokens share the maximum probability.
C8_NucleusEqualsGreedy ==
    (unit.fn = "_sample_top_p" /\ SmallTopP) =>
        unit.ret = ArgMax(Distribution(unit.x).v)

\* C8 as amended: with top_p smaller than the highest probability the nucleus
\* sampler returns, on every draw, a token of the highest probability; that is
\* the token the greedy strategy returns when the maximum is unique; when
\* several tokens share the maximum it is one of them, the sort deciding which.
C8_NucleusReturnsAMaximum ==
    (unit.fn = "_sample_top_p" /\ SmallTopP) =>
        /\ unit.ret \in Vocab
        /\ \A j \in Vocab : unit.x[j] <= unit.x[unit.ret]
        /\ UniqueMax => unit.ret = ArgMax(Distribution(unit.x).v)

C8_Witness ==
    /\ unit.fn = "_sample_top_p" /\ SmallTopP /\ UniqueMax
    /\ unit.ret = 2
    /\ unit.ret = ArgMax(Distribution(unit.x).v)

C8_WitnessTie ==
    /\ unit.fn = "_sample_top_p" /\ SmallTopP /\ ~UniqueMax
    /\ unit.ret # ArgMax(Distribution(unit.x).v)

\* C9: a call whose steps are exhausted without the eos token ends "done",
\* not in an error, with exactly max_tokens_to_generate generated tokens.
C9_ExhaustedIsDone ==
    \A c \in Calls :
        (pc[c] \in {"done", "error"} /\ ~HasEos(c)) =>
            (pc[c] = "done" /\ Len(generated_tokens[c]) = MaxSteps(c))

\* C10: a call whose steps interleave with those of another independent call
\* produces the tokens it produces when it runs alone from the state it
\* started in.
C10_SameResultAsAlone ==
    \A c \in Calls : pc[c] = "done" => alone[c].same

\* ------------------------------------------------ the nucleus, rank by rank
\* The scores of the direct call in the order the sort produced.
SortedScores == [r \in Vocab |-> unit.x[unit.probs_idx[r]]]

\* The sorted ranks whose entry is non-zero after the truncation.
NonZeroRanks == {r \in Vocab : unit.probs_sort.v[r] > 0}

\* The cumulative probability of the sorted ranks 0..r reaches top_p / exceeds it.
Reaches(r) == PrefixSum(SortedScores, r) * unit.p.d >= unit.p.n * SumVec(unit.x)

Exceeds(r) == PrefixSum(SortedScores, r) * unit.p.d > unit.p.n * SumVec(unit.x)

\* C11: with top_p = 1 the nucleus sampler masks and zeroes no entry, and the
\* distribution it draws from equals, entry by entry, the input distribution
\* (in sorted order: rank r carries the probability of token probs_idx[r]).
C11_TopPOneKeepsDistribution ==
    (unit.fn = "_sample_top_p" /\ unit.p.n = unit.p.d) =>
        /\ ~IsNaN(unit.probs_sort)
        /\ \A r \in Vocab :
               /\ ~unit.mask[r]
               /\ unit.probs_sort.v[r] * SumVec(unit.x) = SortedScores[r] * unit.probs_sort.d

C11_Witness ==
    /\ unit.fn = "_sample_top_p" /\ unit.p.n = unit.p.d
    /\ unit.x[0] = 1 /\ unit.x[1] = 3 /\ unit.x[2] = 2
    /\ unit.probs_idx[0] = 1 /\ unit.probs_idx[2] = 0
    /\ unit.probs_sort.v[2] * 6 = unit.probs_sort.d

C11_WitnessZeroEntry ==
    /\ unit.fn = "_sample_top_p" /\ unit.p.n = unit.p.d
    /\ unit.x[0] = 0 /\ unit.x[1] = 2 /\ unit.x[2] = 0
    /\ \A r \in Vocab : ~unit.mask[r]

\* C12 as stated: the ranks left non-zero by the truncation are the smallest
\* prefix of the descending order whose cumulative probability reaches top_p
\* (is >= top_p), also when a prefix's cumulative probability equals top_p.
C12_SmallestPrefixReaching ==
    unit.fn = "_sample_top_p" =>
        \E k \in Vocab :
            /\ Reaches(k)
            /\ \A j \in Vocab : j < k => ~Reaches(j)
            /\ NonZeroRanks = 0 .. k

\* C12 as amended: the ranks left non-zero by the truncation are the non-zero
\* entries of the smallest prefix of the descending order whose cumulative
\* probability exceeds top_p (is > top_p), or all non-zero entries when no
\* prefix exceeds top_p; a rank is masked exactly when the cumulative
\* probability before it exceeds top_p.  When a prefix's cumulative
\* probability equals top_p exactly, the next rank is kept as well.
C12_SmallestPrefixExceeding ==
    unit.fn = "_sample_top_p" =>
        LET over == {r \in Vocab : Exceeds(r)}
            k    == IF over = {} THEN VocabSize - 1
                    ELSE CHOOSE r \in over : \A q \in over : r <= q
        IN  /\ \A r \in Vocab : unit.mask[r] <=> r > k
            /\ NonZeroRanks = {r \in 0 .. k : SortedScores[r] > 0}
            /\ \A r \in Vocab :
                   (r < k /\ Reaches(r) /\ ~Exceeds(r) /\ SortedScores[r + 1] > 0)
                       => (r + 1) \in NonZeroRanks

\* top_p = 1/2 on (1/2, 1/4, 1/4): the first rank reaches top_p exactly and
\* the second rank is kept with it.
C12_Witness ==
    /\ unit.fn = "_sample_top_p"
    /\ unit.p = Frac(2, PDen)
    /\ unit.x[0] = 1 /\ unit.x[1] = 2 /\ unit.x[2] = 1
    /\ NonZeroRanks = {0, 1}
    /\ unit.mask[2]

\* no equality: top_p = 3/4 on (1/2, 1/3, 1/6) keeps the two first ranks
C12_WitnessStrict ==
    /\ unit.fn = "_sample_top_p"
    /\ unit.p = Frac(3, PDen)
    /\ unit.x[0] = 3 /\ unit.x[1] = 2 /\ unit.x[2] = 1
    /\ NonZeroRanks = {0, 1}

\* ------------------------------------------------------------ failing steps
\* C13: once a step of a call has raised, the call has left test_inference
\* with the exception: it is not at the print of line 87 and never gets there,
\* the failed iteration is the only one without its token (it was entered
\* once, not again), and from then on the call makes no forward call, appends
\* no token and changes neither its window, its mask nor its cache.
C13_FailureAborts ==
    /\ [](\A c \in Calls :
             failed[c] => /\ pc[c] = "error"
                          /\ step[c] = Len(generated_tokens[c]) + 1)
    /\ [][\A c \in Calls :
             failed[c] => /\ pc'[c] = "error"
                          /\ step'[c] = step[c]
                          /\ fwd'[c] = fwd[c]
                          /\ generated_tokens'[c] = generated_tokens[c]
                          /\ input_ids'[c] = input_ids[c]
                          /\ attention_mask'[c] = attention_mask[c]
                          /\ kv_cache'[c] = kv_cache[c]]_vars

\* the forward call of the second iteration raised
C13_Witness ==
    \E c \in Calls :
        /\ failed[c] /\ pc[c] = "error"
        /\ step[c] = 2 /\ Len(generated_tokens[c]) = 1
        /\ fwd[c].returned = NoCache
        /\ MaxSteps(c) = 3

\* the token selection of the second iteration raised
C13_WitnessSelect ==
    \E c \in Calls :
        /\ failed[c] /\ pc[c] = "error"
        /\ step[c] = 2 /\ Len(generated_tokens[c]) = 1
        /\ fwd[c].returned # NoCache
        /\ args[c].do_sample

\* ------------------------------------------------------ the greedy sequence
\* The position of the first eos token in the stream s, 0 when it has none.
FirstEos(s, eos) ==
    LET at == {i \in 1 .. Len(s) : s[i] = eos}
    IN  IF at = {} THEN 0 ELSE CHOOSE i \in at : \A j \in at : i <= j

\* The generated tokens of call c are the shortest prefix of its stream that
\* ends in the eos token, or, the stream having no eos token within the
\* budget, its first max_tokens_to_generate tokens.
GreedySequence(c) ==
    LET e == FirstEos(stream[c], stop_token[c])
    IN  IF e > 0
        THEN generated_tokens[c] = SubSeq(stream[c], 1, e)
        ELSE Len(stream[c]) = MaxSteps(c) /\ generated_tokens[c] = stream[c]

\* C14: a greedy call that has ended has produced its generated sequence
\* (line 85), and that sequence is the shortest prefix of the stream of
\* highest-scoring tokens ending in the eos token, or else the first
\* max_tokens_to_generate tokens of the stream.
C14_GreedySequence ==
    \A c \in Calls :
        (~args[c].do_sample /\ pc[c] \in {"done", "error"}) =>
            (pc[c] = "done" /\ GreedySequence(c))

\* the same with a budget of at least one token
C14_GreedySequencePositiveBudget ==
    \A c \in Calls :
        (~args[c].do_sample /\ MaxSteps(c) >= 1 /\ pc[c] \in {"done", "error"}) =>
            (pc[c] = "done" /\ GreedySequence(c))

\* the stream 0, 2, eos with a budget of 3
C14_WitnessEos ==
    \E c \in Calls :
        /\ ~args[c].do_sample /\ pc[c] = "done" /\ MaxSteps(c) = 3
        /\ stream[c] = <<0, 2, stop_token[c]>>
        /\ generated_tokens[c] = stream[c]

\* the stream 0, eos, ... with a budget of 3; the stream 0, 2, ... with a budget of 2
C14_WitnessShort ==
    \E c \in Calls :
        /\ ~args[c].do_sample /\ pc[c] = "done" /\ MaxSteps(c) = 3
        /\ generated_tokens[c] = <<0, stop_token[c]>>

C14_WitnessBudget ==
    \E c \in Calls :
        /\ ~args[c].do_sample /\ pc[c] = "done" /\ MaxSteps(c) = 2
        /\ generated_tokens[c] = <<0, 2>>

\* -------------------------------------------------- the cache, call by call
\* C15: the first forward call of a call receives the freshly created empty
\* cache, no forward call having returned one before; every later forward
\* call receives exactly the cache the forward call before it returned, which
\* is not the empty cache.  (Every returned cache covers more positions than
\* the one before, so the latest returned cache is none of the older ones.)
C15_CacheThreaded ==
    \A c \in Calls :
        step[c] >= 1 =>
            /\ step[c] = 1 => (fwd[c].kv_cache = EmptyCache /\ fwd[c].previous = NoCache)
            /\ step[c] > 1 => /\ fwd[c].previous # NoCache
                               /\ fwd[c].kv_cache = fwd[c].previous
                               /\ fwd[c].kv_cache # EmptyCache
                               /\ fwd[c].kv_cache = PromptLength(c) + step[c] - 2
            /\ pc[c] = "sample" => fwd[c].returned > fwd[c].kv_cache

C15_Witness ==
    \E c \in Calls :
        /\ pc[c] = "sample" /\ step[c] = 3
        /\ PromptLength(c) = 2
        /\ fwd[c].previous = 3 /\ fwd[c].kv_cache = 3 /\ fwd[c].returned = 4

\* C16: the token the nucleus sampler returns is the vocabulary id
\* probs_idx[rank] of the drawn sorted rank; that rank survived the truncation
\* (the cumulative probability before it is at most top_p, it is not masked
\* and its weight is non-zero), so a zeroed token is never returned, and the
\* returned token has non-zero probability in the input distribution.
C16_ReturnsSurvivingToken ==
    unit.fn = "_sample_top_p" =>
        /\ unit.rank \in Vocab
        /\ unit.ret = unit.probs_idx[unit.rank]
        /\ ~unit.mask[unit.rank]
        /\ unit.probs_sort.v[unit.rank] > 0
        /\ (PrefixSum(SortedScores, unit.rank) - SortedScores[unit.rank]) * unit.p.d
               <= unit.p.n * SumVec(unit.x)
        /\ unit.x[unit.ret] > 0

\* the second sorted rank is drawn and mapped back to token 0, the third
\* rank being zeroed
C16_Witness ==
    /\ unit.fn = "_sample_top_p"
    /\ unit.x[0] = 2 /\ unit.x[1] = 1 /\ unit.x[2] = 3
    /\ unit.p = Frac(3, PDen)
    /\ unit.mask[2]
    /\ unit.rank = 1
    /\ unit.ret = 0

\* ------------------------------------------------------ after the eos token
\* C17: the eos token occurs in the generated tokens only as their last
\* element; once it has been appended the call is past the loop, and no step
\* of the call makes a forward call, draws from the generator, appends a
\* token, or changes the window, the mask or the cache.
C17_NothingAfterEos ==
    /\ [](\A c \in Calls :
             /\ \A i \in 1 .. (Len(generated_tokens[c]) - 1) :
                    generated_tokens[c][i] # stop_token[c]
             /\ HasEos(c) => /\ pc[c] \in {"cat", "done"}
                              /\ step[c] = Len(generated_tokens[c])
                              /\ Len(attention_mask[c]) = PromptLength(c) + step[c] - 1)
    /\ [][\A c \in Calls :
             HasEos(c) => /\ step'[c] = step[c]
                          /\ fwd'[c] = fwd[c]
                          /\ rng' = rng
                          /\ generated_tokens'[c] = generated_tokens[c]
                          /\ input_ids'[c] = input_ids[c]
                          /\ attention_mask'[c] = attention_mask[c]
                          /\ kv_cache'[c] = kv_cache[c]]_vars

C17_Witness ==
    \E c \in Calls :
        /\ pc[c] = "done" /\ MaxSteps(c) = 3
        /\ Len(generated_tokens[c]) = 2
        /\ generated_tokens[c][2] = stop_token[c]
        /\ step[c] = 2
        /\ Len(attention_mask[c]) = PromptLength(c) + 1

\* ------------------------------------------- lengths at every forward call
\* C18: at every forward call the length of the attention mask passed equals
\* the number of positions the passed cache covers plus the length of the
\* window passed, which is the prompt length at step 1 and the prompt length
\* plus k - 1 at step k; and the number of forward calls made so far is the
\* number of generated tokens plus one.
C18_LengthsAtForward ==
    \A c \in Calls :
        pc[c] = "sample" =>
            /\ Len(fwd[c].attention_mask) = fwd[c].kv_cache + Len(fwd[c].input_ids)
            /\ Len(fwd[c].attention_mask) = PromptLength(c) + step[c] - 1
            /\ step[c] = Len(generated_tokens[c]) + 1

C18_Witness ==
    \E c \in Calls :
        /\ pc[c] = "sample" /\ step[c] = 3
        /\ PromptLength(c) = 2
        /\ Len(fwd[c].attention_mask) = 4
        /\ fwd[c].kv_cache = 3 /\ Len(fwd[c].input_ids) = 1

C18_WitnessFirst ==
    \E c \in Calls :
        /\ pc[c] = "sample" /\ step[c] = 1
        /\ PromptLength(c) = 2
        /\ Len(fwd[c].attention_mask) = 2
        /\ fwd[c].kv_cache = 0 /\ Len(fwd[c].input_ids) = 2

====
